---- MODULE Spec2Model ----
(***************************************************************************)
(* Model of the hint utilities of the Cairo VM                             *)
(* (src/hint_processor/builtin_hint_processor/hint_utils.rs): the accessors *)
(* that resolve an ids variable name through the reference table           *)
(* (ids_data) to an address of the segmented memory and read or write the  *)
(* cell there.                                                             *)
(***************************************************************************)
EXTENDS Integers, Sequences, FiniteSets, TLC

\* ------------------------------------------------------------------ bounds
MaxSegs == 2        \* the memory holds 0..MaxSegs segments
MaxInitLen == 1     \* cells the execution segment holds before the first call
MaxRegOff == 1      \* ap and fp offsets range over 0..MaxRegOff

\* ------------------------------------------------------------------ values
\* the variable names the hints ask for
Names == {"value"}

Relocatable(s, o) == [segment_index |-> s, offset |-> o]

IntValue(n) == [tag |-> "Int", value |-> n]

RelocatableValue(r) == [tag |-> "RelocatableValue", value |-> r]

\* Option::None of a memory cell
None == [tag |-> "None"]

Felts == {0, 1}

Pointers == {Relocatable(0, 0), Relocatable(1, 0)}

\* the values a caller stores (impl Into<MaybeRelocatable>)
Values == {IntValue(n) : n \in Felts} \cup {RelocatableValue(p) : p \in Pointers}

Cells == Values \cup {None}

\* ------------------------------------------------------------------ results
Ok(v) == [ok |-> TRUE, val |-> v]

Err(e) == [ok |-> FALSE, err |-> e]

\* Ok(()) of the stores
Unit == [tag |-> "unit"]

\* the Felt an integer read returns
Felt(n) == [felt |-> n]

FailedToGetIds == [kind |-> "FailedToGetIds"]

Internal(e) == [kind |-> "Internal", inner |-> e]

UnallocatedSegment(len, accessed) ==
    [kind |-> "UnallocatedSegment", len |-> len, accessed |-> accessed]

ExpectedInteger(v) == [kind |-> "ExpectedInteger", payload |-> v]

ExpectedRelocatable(v) == [kind |-> "ExpectedRelocatable", payload |-> v]

\* the lower-level error of an address whose offset would fall below zero
CantSubOffset == [kind |-> "CantSubOffset"]

\* ------------------------------------------------------------------ references
Reference(reg, off, deref) ==
    [tag |-> "Reference", register |-> reg, offset |-> off, deref |-> deref]

Value(k) == [tag |-> "Value", value |-> k]

Offsets1 == {Reference(reg, off, d) :
                reg \in {"AP", "FP"}, off \in {-1, 0}, d \in BOOLEAN}

Offsets2 == {Value(0), Value(2)} \cup
            {Reference("FP", 0, TRUE)}

HintReference(o1, o2, deref) ==
    [offset1 |-> o1, offset2 |-> o2, dereference |-> deref,
     ap_tracking_data |-> 0]

HintReferences ==
    {HintReference(o1, o2, d) : o1 \in Offsets1, o2 \in Offsets2, d \in BOOLEAN}

new_simple(offset1) == HintReference(Reference("FP", offset1, FALSE), Value(0), TRUE)

\* the reference table of the scope: it holds "value" under any reference, or
\* it does not hold it (another variable only, or no variable)
ReferenceTables ==
    {("value" :> r) : r \in HintReferences} \cup
    {("other" :> new_simple(0)), [x \in {} |-> new_simple(0)]}

\* ------------------------------------------------------------------ state
VARIABLES
    data,          \* vm.memory: sequence of segments, each a sequence of cells
    ap, fp,        \* offsets of the two registers in the execution segment
    ids_data,      \* the reference table: variable name -> HintReference
    ap_tracking,   \* offset of the hint's ApTracking
    op,            \* the accessor called last ("none" before the first call)
    var_name,      \* its variable name
    value,         \* the value it was given to store
    result,        \* what it returned
    data0,         \* the memory when it was called
    regs0          \* <<ap, fp>> when it was called

vars == <<data, ap, fp, ids_data, ap_tracking, op, var_name, value, result, data0,
          regs0>>

get_ap == Relocatable(1, ap)

get_fp == Relocatable(1, fp)

\* ------------------------------------------------------------------ memory
SegLen(mem, s) == IF s < Len(mem) THEN Len(mem[s + 1]) ELSE 0

Memory_get(mem, addr) ==
    IF addr.segment_index < Len(mem)
       /\ addr.offset < Len(mem[addr.segment_index + 1])
    THEN mem[addr.segment_index + 1][addr.offset + 1]
    ELSE None

Memory_insert(mem, addr, val) ==
    IF addr.segment_index >= Len(mem)
    THEN [res |-> Err(UnallocatedSegment(Len(mem), addr.segment_index)),
          mem |-> mem]
    ELSE LET seg == mem[addr.segment_index + 1]
             n == IF Len(seg) > addr.offset THEN Len(seg) ELSE addr.offset + 1
             grown == [j \in 1..n |->
                         IF j = addr.offset + 1 THEN val
                         ELSE IF j <= Len(seg) THEN seg[j] ELSE None]
         IN [res |-> Ok(Unit),
             mem |-> [mem EXCEPT ![addr.segment_index + 1] = grown]]

insert_value(mem, addr, val) == Memory_insert(mem, addr, val)

get_relocatable(mem, addr) ==
    LET c == Memory_get(mem, addr)
    IN IF c.tag = "RelocatableValue" THEN Ok(c.value)
       ELSE IF c.tag = "Int"
            THEN Err(Internal(ExpectedRelocatable(RelocatableValue(addr))))
            ELSE Err(FailedToGetIds)

\* variant: a cell that is not an integer, unset included, is a type mismatch
get_integer_unset_is_mismatch(mem, addr) ==
    LET c == Memory_get(mem, addr)
    IN IF c.tag = "Int" THEN Ok(Felt(c.value))
       ELSE Err(Internal(ExpectedInteger(RelocatableValue(addr))))

get_integer(mem, addr) ==
    LET c == Memory_get(mem, addr)
    IN IF c.tag = "Int" THEN Ok(Felt(c.value))
       ELSE IF c.tag = "RelocatableValue"
            THEN Err(Internal(ExpectedInteger(RelocatableValue(addr))))
            ELSE Err(FailedToGetIds)

get_maybe(mem, addr) ==
    LET c == Memory_get(mem, addr)
    IN IF c.tag = "None" THEN Err(FailedToGetIds) ELSE Ok(c)

\* ------------------------------------------------------------------ resolver
apply_ap_tracking_correction(reference, tracking) ==
    LET ap_diff == tracking - reference.ap_tracking_data
    IN IF ap_diff > ap THEN Err(Internal(CantSubOffset))
       ELSE Ok(Relocatable(1, ap - ap_diff))

get_offset_value_reference(mem, reference, tracking, offset_value) ==
    LET base == IF offset_value.register = "FP" THEN Ok(get_fp)
                ELSE apply_ap_tracking_correction(reference, tracking)
    IN IF ~base.ok THEN base
       ELSE IF base.val.offset + offset_value.offset < 0 THEN Err(FailedToGetIds)
       ELSE LET addr == Relocatable(base.val.segment_index,
                                    base.val.offset + offset_value.offset)
            IN IF offset_value.deref THEN get_maybe(mem, addr)
               ELSE Ok(RelocatableValue(addr))

compute_addr_from_reference(mem, reference, tracking) ==
    LET v1 == get_offset_value_reference(mem, reference, tracking, reference.offset1)
    IN IF ~v1.ok THEN v1
       ELSE IF v1.val.tag # "RelocatableValue"
            THEN Err(Internal(ExpectedRelocatable(v1.val)))
       ELSE LET offset1 == v1.val.value
            IN IF reference.offset2.tag = "Value"
               THEN Ok(Relocatable(offset1.segment_index,
                                   offset1.offset + reference.offset2.value))
               ELSE LET v2 == get_offset_value_reference(mem, reference, tracking,
                                                         reference.offset2)
                    IN IF ~v2.ok THEN v2
                       ELSE IF v2.val.tag # "Int"
                            THEN Err(Internal(ExpectedInteger(v2.val)))
                       ELSE Ok(Relocatable(offset1.segment_index,
                                           offset1.offset + v2.val.value))

get_integer_from_reference(mem, reference, tracking) ==
    LET var_addr == compute_addr_from_reference(mem, reference, tracking)
    IN IF ~var_addr.ok THEN var_addr ELSE get_integer(mem, var_addr.val)

get_maybe_relocatable_from_reference(mem, reference, tracking) ==
    LET var_addr == compute_addr_from_reference(mem, reference, tracking)
    IN IF ~var_addr.ok THEN var_addr ELSE get_maybe(mem, var_addr.val)

\* ------------------------------------------------------------------ accessors
\* variant: a missing name falls back to a default reference
get_reference_from_var_name_or_default(name, ids) ==
    IF name \in DOMAIN ids THEN Ok(ids[name]) ELSE Ok(new_simple(0))

get_reference_from_var_name(name, ids) ==
    IF name \in DOMAIN ids THEN Ok(ids[name]) ELSE Err(FailedToGetIds)

get_relocatable_from_var_name(name, mem, ids, tracking) ==
    IF name \notin DOMAIN ids THEN Err(FailedToGetIds)
    ELSE compute_addr_from_reference(mem, ids[name], tracking)

get_address_from_var_name(name, mem, ids, tracking) ==
    IF name \notin DOMAIN ids THEN Err(FailedToGetIds)
    ELSE LET r == compute_addr_from_reference(mem, ids[name], tracking)
         IN IF r.ok THEN Ok(RelocatableValue(r.val)) ELSE r

\* variant: the two branches on the dereference flag are exchanged
get_ptr_from_var_name_swapped(name, mem, ids, tracking) ==
    LET var_addr == get_relocatable_from_var_name(name, mem, ids, tracking)
    IN IF ~var_addr.ok THEN var_addr
       ELSE IF name \notin DOMAIN ids THEN Err(FailedToGetIds)
       ELSE IF ids[name].dereference THEN Ok(var_addr.val)
       ELSE get_relocatable(mem, var_addr.val)

\* variant: the dereference flag is ignored, the address is returned
get_ptr_from_var_name_no_deref(name, mem, ids, tracking) ==
    LET var_addr == get_relocatable_from_var_name(name, mem, ids, tracking)
    IN IF ~var_addr.ok THEN var_addr
       ELSE IF name \notin DOMAIN ids THEN Err(FailedToGetIds)
       ELSE Ok(var_addr.val)

\* variant: the dereference flag is ignored, the cell is always read
get_ptr_from_var_name_always_deref(name, mem, ids, tracking) ==
    LET var_addr == get_relocatable_from_var_name(name, mem, ids, tracking)
    IN IF ~var_addr.ok THEN var_addr
       ELSE IF name \notin DOMAIN ids THEN Err(FailedToGetIds)
       ELSE get_relocatable(mem, var_addr.val)

\* variant: the error of the memory read is replaced by FailedToGetIds
get_ptr_from_var_name_error_lost(name, mem, ids, tracking) ==
    LET var_addr == get_relocatable_from_var_name(name, mem, ids, tracking)
    IN IF ~var_addr.ok THEN var_addr
       ELSE IF name \notin DOMAIN ids THEN Err(FailedToGetIds)
       ELSE IF ids[name].dereference
            THEN LET r == get_relocatable(mem, var_addr.val)
                 IN IF r.ok THEN r ELSE Err(FailedToGetIds)
       ELSE Ok(var_addr.val)

get_ptr_from_var_name(name, mem, ids, tracking) ==
    LET var_addr == get_relocatable_from_var_name(name, mem, ids, tracking)
    IN IF ~var_addr.ok THEN var_addr
       ELSE IF name \notin DOMAIN ids THEN Err(FailedToGetIds)
       ELSE IF ids[name].dereference THEN get_relocatable(mem, var_addr.val)
       ELSE Ok(var_addr.val)

\* variant: every failure of the read is reported as FailedToGetIds
get_integer_from_var_name_error_lost(name, mem, ids, tracking) ==
    LET reference == get_reference_from_var_name(name, ids)
    IN IF ~reference.ok THEN reference
       ELSE LET r == get_integer_from_reference(mem, reference.val, tracking)
            IN IF r.ok THEN r ELSE Err(FailedToGetIds)

get_integer_from_var_name(name, mem, ids, tracking) ==
    LET reference == get_reference_from_var_name(name, ids)
    IN IF ~reference.ok THEN reference
       ELSE get_integer_from_reference(mem, reference.val, tracking)

\* variant: the raw read goes through the integer read
get_maybe_relocatable_from_var_name_as_integer(name, mem, ids, tracking) ==
    LET reference == get_reference_from_var_name(name, ids)
    IN IF ~reference.ok THEN reference
       ELSE LET r == get_integer_from_reference(mem, reference.val, tracking)
            IN IF r.ok THEN Ok(IntValue(r.val.felt)) ELSE r

get_maybe_relocatable_from_var_name(name, mem, ids, tracking) ==
    LET reference == get_reference_from_var_name(name, ids)
    IN IF ~reference.ok THEN reference
       ELSE get_maybe_relocatable_from_reference(mem, reference.val, tracking)

\* [res, mem]: the result and the memory the call leaves
insert_value_from_var_name(name, val, mem, ids, tracking) ==
    LET var_address == get_relocatable_from_var_name(name, mem, ids, tracking)
    IN IF ~var_address.ok THEN [res |-> var_address, mem |-> mem]
       ELSE LET w == insert_value(mem, var_address.val, val)
            IN IF w.res.ok THEN w
               ELSE [res |-> Err(Internal(w.res.err)), mem |-> w.mem]

\* variant: the error of the write is dropped
insert_value_into_ap_error_dropped(mem, val) ==
    LET w == insert_value(mem, get_ap, val)
    IN [res |-> Ok(Unit), mem |-> w.mem]

\* variant: the write goes to the frame register's address
insert_value_into_ap_at_fp(mem, val) ==
    LET w == insert_value(mem, get_fp, val)
    IN IF w.res.ok THEN w
       ELSE [res |-> Err(Internal(w.res.err)), mem |-> w.mem]

insert_value_into_ap(mem, val) ==
    LET w == insert_value(mem, get_ap, val)
    IN IF w.res.ok THEN w
       ELSE [res |-> Err(Internal(w.res.err)), mem |-> w.mem]

\* ------------------------------------------------------------------ behaviour
\* The memory a hint finds: fewer than MaxSegs segments, nothing written yet
\* (Memory::new() and the segments added to it), or MaxSegs segments with a
\* written prefix of the execution segment, segment 1, as memory![((1, 0), ..)]
\* builds it. Within a frame ap is never below fp.
SegmentContents(n) == UNION {[1..k -> Values] : k \in 0..n}

InitialMemories ==
    {[i \in 1..n |-> <<>>] : n \in 0..(MaxSegs - 1)} \cup
    {[i \in 1..MaxSegs |-> IF i = 2 THEN seg ELSE <<>>] :
        seg \in SegmentContents(MaxInitLen)}

Init ==
    /\ data \in InitialMemories
    /\ fp \in 0..MaxRegOff
    /\ ap \in fp..MaxRegOff
    /\ ids_data \in ReferenceTables
    /\ ap_tracking \in {0, 1}
    /\ op = "none"
    /\ var_name = ""
    /\ value = None
    /\ result = Ok(Unit)
    /\ data0 = data
    /\ regs0 = <<ap, fp>>

Read(o, n, r) ==
    /\ op' = o
    /\ var_name' = n
    /\ value' = None
    /\ result' = r
    /\ data0' = data
    /\ regs0' = <<ap, fp>>
    /\ UNCHANGED <<data, ap, fp, ids_data, ap_tracking>>

Write(o, n, v, w) ==
    /\ op' = o
    /\ var_name' = n
    /\ value' = v
    /\ result' = w.res
    /\ data0' = data
    /\ regs0' = <<ap, fp>>
    /\ data' = w.mem
    /\ UNCHANGED <<ap, fp, ids_data, ap_tracking>>

GetRelocatable ==
    \E n \in Names :
        Read("get_relocatable_from_var_name", n,
             get_relocatable_from_var_name(n, data, ids_data, ap_tracking))

GetAddress ==
    \E n \in Names :
        Read("get_address_from_var_name", n,
             get_address_from_var_name(n, data, ids_data, ap_tracking))

GetPtr ==
    \E n \in Names :
        Read("get_ptr_from_var_name", n,
             get_ptr_from_var_name(n, data, ids_data, ap_tracking))

GetInteger ==
    \E n \in Names :
        Read("get_integer_from_var_name", n,
             get_integer_from_var_name(n, data, ids_data, ap_tracking))

GetMaybeRelocatable ==
    \E n \in Names :
        Read("get_maybe_relocatable_from_var_name", n,
             get_maybe_relocatable_from_var_name(n, data, ids_data, ap_tracking))

InsertValueFromVarName ==
    \E n \in Names, v \in Values :
        Write("insert_value_from_var_name", n, v,
              insert_value_from_var_name(n, v, data, ids_data, ap_tracking))

InsertValueIntoAp ==
    \E v \in Values :
        Write("insert_value_into_ap", "", v, insert_value_into_ap(data, v))

Next ==
    \/ GetRelocatable
    \/ GetAddress
    \/ GetPtr
    \/ GetInteger
    \/ GetMaybeRelocatable
    \/ InsertValueFromVarName
    \/ InsertValueIntoAp

Spec == Init /\ [][Next]_vars

\* ------------------------------------------------------------------ properties
\* The state after a call records the call (op, var_name, value), what it
\* returned (result) and the memory and registers it was made in (data0, regs0).

NameOps == {"get_relocatable_from_var_name", "get_address_from_var_name",
            "get_ptr_from_var_name", "get_integer_from_var_name",
            "get_maybe_relocatable_from_var_name", "insert_value_from_var_name"}

ReadOps == NameOps \ {"insert_value_from_var_name"}

StoreOps == {"insert_value_from_var_name", "insert_value_into_ap"}

InTable == var_name \in DOMAIN ids_data

\* the address the reference of the call resolved to, in the memory of the call
Resolved == get_relocatable_from_var_name(var_name, data0, ids_data, ap_tracking)

\* the cell at that address when the call was made
CellAtResolved == Memory_get(data0, Resolved.val)

\* the address a store was aimed at
StoreTarget ==
    IF op = "insert_value_into_ap" THEN Ok(Relocatable(1, regs0[1])) ELSE Resolved

MaxSegLen(mem) ==
    LET lens == {Len(mem[i]) : i \in 1..Len(mem)}
    IN IF lens = {} THEN 0 ELSE CHOOSE n \in lens : \A m \in lens : m <= n

\* every address of the segments of mem or data0, one offset past the longest
Addresses(mem) ==
    {Relocatable(s, o) : s \in 0..(Len(mem) - 1), o \in 0..MaxSegLen(mem)}

IsTypeMismatch(e) ==
    \/ e.kind \in {"ExpectedInteger", "ExpectedRelocatable"}
    \/ e.kind = "Internal"
       /\ e.inner.kind \in {"ExpectedInteger", "ExpectedRelocatable"}

\* C1: a name-taking accessor called with a name that is no key of ids_data
\* returns FailedToGetIds and leaves memory and registers as they were.
C1_UnknownVariable ==
    (op \in NameOps /\ ~InTable) =>
        /\ result = Err(FailedToGetIds)
        /\ data = data0
        /\ <<ap, fp>> = regs0

\* the store is asked for a missing name while the table holds another one
\* and the execution segment exists
C1_Witness ==
    /\ op = "insert_value_from_var_name"
    /\ ~InTable
    /\ DOMAIN ids_data # {}
    /\ Len(data0) = MaxSegs
    /\ result = Err(FailedToGetIds)

\* C2: a store aimed at an address whose segment is not allocated fails with
\* Internal(UnallocatedSegment(segment count, segment index)) and leaves the
\* memory as it was.
C2_UnallocatedSegment ==
    (op \in StoreOps /\ StoreTarget.ok
        /\ StoreTarget.val.segment_index >= Len(data0)) =>
        /\ result = Err(Internal(UnallocatedSegment(
                            Len(data0), StoreTarget.val.segment_index)))
        /\ data = data0

C2_Witness ==
    /\ op = "insert_value_into_ap"
    /\ Len(data0) = 1
    /\ result = Err(Internal(UnallocatedSegment(1, 1)))

\* C3 as stated: after a successful store of v under a name, the raw read of
\* that name returns v, whatever the shape of the reference.
C3_RoundTrip_AnyReference ==
    (op = "insert_value_from_var_name" /\ result.ok) =>
        get_maybe_relocatable_from_var_name(var_name, data, ids_data, ap_tracking)
            = Ok(value)

\* neither offset of the reference is read from memory
NoOffsetFromMemory(reference) ==
    /\ ~reference.offset1.deref
    /\ reference.offset2.tag = "Value"

\* the reference resolves after the store to the address it was stored at
SameAddressAfterStore ==
    get_relocatable_from_var_name(var_name, data, ids_data, ap_tracking) = Resolved

\* C3 amended: after a successful store of v under a name, the raw read of that
\* name returns v provided the reference still resolves to the address written,
\* which it always does when neither of its offsets is read from memory.
C3_RoundTrip_SameAddress ==
    (op = "insert_value_from_var_name" /\ result.ok) =>
        /\ NoOffsetFromMemory(ids_data[var_name]) => SameAddressAfterStore
        /\ SameAddressAfterStore =>
              get_maybe_relocatable_from_var_name(var_name, data, ids_data,
                                                  ap_tracking) = Ok(value)

\* a pointer is stored through a reference whose primary offset is read from
\* memory, and the reference still resolves to the cell written
C3_Witness ==
    /\ op = "insert_value_from_var_name"
    /\ result.ok
    /\ ids_data[var_name].offset1.deref
    /\ value.tag = "RelocatableValue"
    /\ CellAtResolved # value
    /\ SameAddressAfterStore

\* C4: pointer-of returns the pointer held by the cell at the resolved address
\* when the dereference flag is set, and the resolved address itself, whatever
\* the cell holds, when the flag is not set.
C4_PointerOfDereference ==
    (op = "get_ptr_from_var_name" /\ InTable /\ Resolved.ok) =>
        /\ (ids_data[var_name].dereference
              /\ CellAtResolved.tag = "RelocatableValue")
             => result = Ok(CellAtResolved.value)
        /\ ~ids_data[var_name].dereference => result = Ok(Resolved.val)

\* get_ptr_from_var_name_valid: new_simple(0), fp = (1, 0), memory (1, 0) = (0, 0)
C4_Witness ==
    /\ op = "get_ptr_from_var_name"
    /\ InTable
    /\ ids_data[var_name] = new_simple(0)
    /\ regs0[2] = 0
    /\ CellAtResolved = RelocatableValue(Relocatable(0, 0))
    /\ result = Ok(Relocatable(0, 0))

\* C5 as stated: with the dereference flag set pointer-of returns the resolved
\* address as it is; with the flag not set it reads the cell there and requires
\* a pointer, failing with a pointer type mismatch otherwise.
C5_PointerOf_AsDesigned ==
    (op = "get_ptr_from_var_name" /\ InTable /\ Resolved.ok) =>
        /\ ids_data[var_name].dereference => result = Ok(Resolved.val)
        /\ ~ids_data[var_name].dereference =>
              IF CellAtResolved.tag = "RelocatableValue"
              THEN result = Ok(CellAtResolved.value)
              ELSE ~result.ok /\ IsTypeMismatch(result.err)

\* C5 amended: with the dereference flag set pointer-of reads the cell at the
\* resolved address and succeeds exactly when it holds a pointer, failing with
\* a pointer type mismatch when it holds an integer; with the flag not set it
\* returns the resolved address as it is.
C5_PointerOf_AsCoded ==
    (op = "get_ptr_from_var_name" /\ InTable /\ Resolved.ok) =>
        /\ ids_data[var_name].dereference =>
              /\ result.ok <=> CellAtResolved.tag = "RelocatableValue"
              /\ result.ok => result.val = CellAtResolved.value
              /\ CellAtResolved.tag = "Int" =>
                    /\ ~result.ok
                    /\ result.err.kind = "Internal"
                    /\ result.err.inner.kind = "ExpectedRelocatable"
        /\ ~ids_data[var_name].dereference =>
              /\ result.ok
              /\ result.val = Resolved.val

\* a non-dereferencing reference whose cell holds a pointer: the address, not
\* the pointer, is returned
C5_Witness ==
    /\ op = "get_ptr_from_var_name"
    /\ InTable
    /\ Resolved.ok
    /\ ~ids_data[var_name].dereference
    /\ CellAtResolved.tag = "RelocatableValue"
    /\ CellAtResolved.value # Resolved.val
    /\ result = Ok(Resolved.val)

\* a failure of the given kind that carries the given payload
FailsWith(kind, payload) ==
    /\ ~result.ok
    /\ \/ result.err = [kind |-> kind, payload |-> payload]
       \/ result.err = Internal([kind |-> kind, payload |-> payload])

\* C6 as stated: pointer-of on a non-dereferencing reference whose cell holds
\* Integer(x) fails with ExpectedPointer(Integer(x)); integer-of on a cell that
\* holds Pointer(p) fails with ExpectedInteger(Pointer(p)).
C6_MismatchCarriesStoredValue ==
    (InTable /\ Resolved.ok) =>
        /\ (op = "get_ptr_from_var_name" /\ ~ids_data[var_name].dereference
              /\ CellAtResolved.tag = "Int")
             => FailsWith("ExpectedRelocatable", CellAtResolved)
        /\ (op = "get_integer_from_var_name"
              /\ CellAtResolved.tag = "RelocatableValue")
             => FailsWith("ExpectedInteger", CellAtResolved)

\* C6 amended: when the cell at the resolved address a holds Integer(x),
\* pointer-of fails with ExpectedRelocatable(a) on a dereferencing reference
\* and returns a on a non-dereferencing one; when the cell holds Pointer(p),
\* integer-of fails with ExpectedInteger(a). The payload is the address a, not
\* the value the cell holds.
C6_MismatchCarriesAddress ==
    (InTable /\ Resolved.ok) =>
        /\ (op = "get_ptr_from_var_name" /\ CellAtResolved.tag = "Int") =>
              IF ids_data[var_name].dereference
              THEN FailsWith("ExpectedRelocatable", RelocatableValue(Resolved.val))
              ELSE result = Ok(Resolved.val)
        /\ (op = "get_integer_from_var_name"
              /\ CellAtResolved.tag = "RelocatableValue") =>
              /\ FailsWith("ExpectedInteger", RelocatableValue(Resolved.val))
              /\ CellAtResolved.value # Resolved.val =>
                    ~FailsWith("ExpectedInteger", CellAtResolved)

\* pointer-of on a non-dereferencing reference whose cell holds an integer
C6_Witness ==
    /\ op = "get_ptr_from_var_name"
    /\ InTable
    /\ Resolved.ok
    /\ ~ids_data[var_name].dereference
    /\ CellAtResolved.tag = "Int"
    /\ result.ok

\* C7: integer-of on a cell that holds a pointer fails with
\* Internal(ExpectedInteger(a)) and pointer-of on a dereferencing reference whose
\* cell holds an integer fails with Internal(ExpectedRelocatable(a)), a being the
\* resolved address; the failed call leaves the memory as it was.
C7_MismatchAsTested ==
    (InTable /\ Resolved.ok) =>
        /\ (op = "get_integer_from_var_name"
              /\ CellAtResolved.tag = "RelocatableValue") =>
              /\ result = Err(Internal(ExpectedInteger(
                                  RelocatableValue(Resolved.val))))
              /\ data = data0
        /\ (op = "get_ptr_from_var_name" /\ ids_data[var_name].dereference
              /\ CellAtResolved.tag = "Int") =>
              /\ result = Err(Internal(ExpectedRelocatable(
                                  RelocatableValue(Resolved.val))))
              /\ data = data0

\* get_integer_from_var_name_invalid: new_simple(0), fp = (1, 0), memory
\* (1, 0) = (0, 0)
C7_Witness ==
    /\ op = "get_integer_from_var_name"
    /\ InTable
    /\ ids_data[var_name] = new_simple(0)
    /\ regs0[2] = 0
    /\ CellAtResolved = RelocatableValue(Relocatable(0, 0))
    /\ result = Err(Internal(ExpectedInteger(RelocatableValue(Relocatable(1, 0)))))

\* the accessors that read the cell at the resolved address
ReadsResolvedCell ==
    \/ op \in {"get_integer_from_var_name", "get_maybe_relocatable_from_var_name"}
    \/ op = "get_ptr_from_var_name" /\ ids_data[var_name].dereference

PrimaryValue ==
    get_offset_value_reference(data0, ids_data[var_name], ap_tracking,
                               ids_data[var_name].offset1)

R1 == HintReference(Reference("FP", 0, TRUE), Value(2), FALSE)

\* C9: for a reference with a literal secondary offset k and the dereference
\* flag not set, whose primary expression yields the address (s, o), address-of
\* and pointer-of return (s, o + k) whatever the cell at (s, o + k) holds; for
\* R1 with the frame register's cell holding (0, 0) pointer-of returns (0, 2).
C9_ImmediateSecondaryOffset ==
    (op \in {"get_relocatable_from_var_name", "get_ptr_from_var_name"}
        /\ InTable) =>
        /\ (ids_data[var_name].offset2.tag = "Value"
              /\ ~ids_data[var_name].dereference
              /\ PrimaryValue.ok
              /\ PrimaryValue.val.tag = "RelocatableValue") =>
              result = Ok(Relocatable(
                            PrimaryValue.val.value.segment_index,
                            PrimaryValue.val.value.offset
                              + ids_data[var_name].offset2.value))
        /\ (op = "get_ptr_from_var_name" /\ ids_data[var_name] = R1
              /\ Memory_get(data0, Relocatable(1, regs0[2]))
                    = RelocatableValue(Relocatable(0, 0))) =>
              result = Ok(Relocatable(0, 2))

\* pointer-of on R1 while the cell at (0, 2) holds an integer
C9_Witness ==
    /\ op = "get_ptr_from_var_name"
    /\ InTable
    /\ ids_data[var_name] = R1
    /\ Memory_get(data0, Relocatable(1, regs0[2]))
          = RelocatableValue(Relocatable(0, 0))
    /\ Memory_get(data0, Relocatable(0, 2)).tag = "Int"
    /\ result = Ok(Relocatable(0, 2))

\* C10: a store never changes the number of segments, no segment ever gets
\* shorter, a successful store to r sets the cell at r to the value stored and
\* leaves every other cell as it was (the slots between the old end of the
\* segment and r being unset), and a read leaves memory and registers as they
\* were.
C10_GrowthAndFrame ==
    /\ op \in StoreOps =>
          /\ Len(data) = Len(data0)
          /\ \A s \in 0..(Len(data0) - 1) : SegLen(data, s) >= SegLen(data0, s)
          /\ <<ap, fp>> = regs0
          /\ ~result.ok => data = data0
          /\ result.ok =>
                /\ StoreTarget.ok
                /\ Memory_get(data, StoreTarget.val) = value
                /\ SegLen(data, StoreTarget.val.segment_index) =
                      IF SegLen(data0, StoreTarget.val.segment_index)
                            > StoreTarget.val.offset
                      THEN SegLen(data0, StoreTarget.val.segment_index)
                      ELSE StoreTarget.val.offset + 1
                /\ \A x \in Addresses(data) \cup Addresses(data0) :
                      x # StoreTarget.val =>
                          Memory_get(data, x) = Memory_get(data0, x)
    /\ op \in ReadOps => (data = data0 /\ <<ap, fp>> = regs0)

\* a store past the end of a segment that leaves a hole before the cell written
C10_Witness ==
    /\ op \in StoreOps
    /\ result.ok
    /\ SegLen(data, StoreTarget.val.segment_index)
          > SegLen(data0, StoreTarget.val.segment_index) + 1
    /\ Memory_get(data, Relocatable(StoreTarget.val.segment_index,
                                    StoreTarget.val.offset - 1)) = None
    /\ Memory_get(data, StoreTarget.val) = value

====
